---- MODULE Spec2Model ----
(***************************************************************************)
(* Model of streamlit_app.py (Price Prediction Monitor).                   *)
(*                                                                         *)
(* The script queries two collections (predicted and actual prices, both   *)
(* sorted ascending by time), groups the predicted documents by ticker and *)
(* for each ticker renders the current price, the mean of the next (up to) *)
(* four predicted prices, the percentage difference and a position signal. *)
(* The whole body runs inside one try block whose handler renders a        *)
(* "Monitoring system error" message.                                      *)
(*                                                                         *)
(* Prices are integers; every quotient the script computes is kept as an   *)
(* exact rational <<numerator, denominator>> in lowest terms with a        *)
(* positive denominator (Python's floating point rounding is not           *)
(* modelled).  A division by zero raises ZeroDivisionError as in Python.   *)
(* The script's module-level names (ticker, current_price, all_higher,     *)
(* ...) are variables of the model and keep their last value from one loop *)
(* iteration to the next, as they do in Python.                            *)
(***************************************************************************)
EXTENDS Integers, Sequences, FiniteSets

VARIABLES predicted_data, actual_data, pc, tickers, pending, ticker,
          ticker_predicted, ticker_actual, current_price, current_time,
          next_predictions, all_higher, all_lower, avg_diff,
          next_predictions_avg, price_diff, rendered, info, error

vars == <<predicted_data, actual_data, pc, tickers, pending, ticker,
          ticker_predicted, ticker_actual, current_price, current_time,
          next_predictions, all_higher, all_lower, avg_diff,
          next_predictions_avg, price_diff, rendered, info, error>>

(***************************************************************************)
(* Bounds of the model.                                                    *)
(***************************************************************************)
\* longest predicted series of the single-ticker specifications
MaxPred == 5
\* longest actual series of the signal specification
MaxLast == 1
\* longest actual series of the horizon specification
MaxActual == 2
\* longest collection (all tickers together) of the two-ticker specification
MaxDocs == 3
\* timestamps are 1..MaxTime
MaxTime == 2

Times == 1..MaxTime
AllTickers == {"A", "B"}
\* predicted prices and last-actual prices of the single-ticker specification:
\* 101 is exactly 1% above 100 and 99 exactly 1% below; 99 is more than 1%
\* above 98 and more than 1% below 101; 0 and -100 are the non-positive prices.
PredPrices == {99, 101}
ActualPrices == {-100, 0, 98, 100, 101}

(***************************************************************************)
(* Program constants.                                                      *)
(***************************************************************************)
SliceLen == 4
MinSignalLen == 4
SignalThreshold == 1
Percent == 100
DeltaLimit == 5

\* a module-level name that has not been assigned yet
Unbound == "unbound"
\* nothing was rendered for a ticker
NotRendered == [kind |-> "none"]

(***************************************************************************)
(* Exact rational arithmetic.                                              *)
(***************************************************************************)
Abs(n) == IF n < 0 THEN -n ELSE n

RECURSIVE GCD(_, _)
GCD(a, b) == IF b = 0 THEN a ELSE GCD(b, a % b)

Norm(n, d) ==
    LET g == GCD(Abs(n), Abs(d))
        s == IF d < 0 THEN -1 ELSE 1
    IN  <<(s * n) \div g, (s * d) \div g>>

R(n) == <<n, 1>>
RAdd(a, b) == Norm(a[1] * b[2] + b[1] * a[2], a[2] * b[2])
RSub(a, b) == Norm(a[1] * b[2] - b[1] * a[2], a[2] * b[2])
RMul(a, b) == Norm(a[1] * b[1], a[2] * b[2])
\* defined for b # 0 only: the callers raise ZeroDivisionError first
RDiv(a, b) == Norm(a[1] * b[2], a[2] * b[1])
RAbs(a) == <<Abs(a[1]), a[2]>>
RGt(a, b) == a[1] * b[2] > b[1] * a[2]
RLe(a, b) == a[1] * b[2] <= b[1] * a[2]

(***************************************************************************)
(* The collections the two queries can return.                             *)
(***************************************************************************)
Docs(ts, prices) == [ticker : ts, time : Times, price : prices]

SeqsUpTo(S, n) == UNION {[1..k -> S] : k \in 0..n}

\* find(query).sort("time", 1)
SortedByTime(s) == \A i \in 1..(Len(s) - 1) : s[i].time <= s[i + 1].time

Collections(ts, prices, n) ==
    {s \in SeqsUpTo(Docs(ts, prices), n) : SortedByTime(s)}

(***************************************************************************)
(* The per-ticker computation of the loop body.                            *)
(***************************************************************************)
\* [d for d in data if d["ticker"] == ticker]
FilterTicker(data, t) == SelectSeq(data, LAMBDA d : d.ticker = t)

\* variant: the filter keeps the points at current_time too
AfterOrAt(tp, ct) == SelectSeq(tp, LAMBDA p : p.time >= ct)

\* [p for p in ticker_predicted if p["time"] > current_time]
After(tp, ct) == SelectSeq(tp, LAMBDA p : p.time > ct)

\* s[:n]
Take(s, n) == SubSeq(s, 1, IF Len(s) < n THEN Len(s) ELSE n)

NextPredictions(tp, ct) == Take(After(tp, ct), SliceLen)

\* variant: three points are taken for a full horizon
HasThreePoints(np) == Len(np) >= MinSignalLen - 1

\* len(next_predictions) >= 4
HasFullHorizon(np) == Len(np) >= MinSignalLen

\* variant: the comparisons are not strict
TrendNonStrict(np, cp) ==
    [all_higher |-> \A i \in DOMAIN np : np[i].price >= cp,
     all_lower  |-> \A i \in DOMAIN np : np[i].price <= cp]

\* all(p["price"] > current_price ...) and all(p["price"] < current_price ...)
Trend(np, cp) ==
    [all_higher |-> \A i \in DOMAIN np : np[i].price > cp,
     all_lower  |-> \A i \in DOMAIN np : np[i].price < cp]

\* sum((p["price"] - current_price) / current_price * 100 for p in ...),
\* over the first i elements; current_price # 0
RECURSIVE SumPctDiff(_, _, _)
SumPctDiff(np, cp, i) ==
    IF i = 0 THEN R(0)
    ELSE RAdd(SumPctDiff(np, cp, i - 1),
              RMul(RDiv(R(np[i].price - cp), R(cp)), R(Percent)))

AvgDiff(np, cp) == RDiv(SumPctDiff(np, cp, Len(np)), R(Len(np)))

\* sum(p["price"] for p in next_predictions), over the first i elements
RECURSIVE SumPrice(_, _)
SumPrice(np, i) == IF i = 0 THEN 0 ELSE SumPrice(np, i - 1) + np[i].price

\* variant: the sum is divided by the size of a full horizon
AvgOverSlice(np) == RDiv(R(SumPrice(np, Len(np))), R(SliceLen))

\* next_predictions_avg; next_predictions is not empty
NextPredictionsAvg(np) == RDiv(R(SumPrice(np, Len(np))), R(Len(np)))

\* variant: the difference is taken relative to the forecast
PriceDiffOverAvg(avg, cp) == RMul(RDiv(RSub(avg, R(cp)), avg), R(Percent))

\* price_diff; current_price # 0
PriceDiff(avg, cp) == RMul(RDiv(RSub(avg, R(cp)), R(cp)), R(Percent))

DeltaColor(pd) ==
    IF RLe(RAbs(pd), R(DeltaLimit)) THEN "normal" ELSE "inverse"

\* variant: a move of exactly the threshold counts
SignalAtThreshold(np, ah, al, ad) ==
    IF HasFullHorizon(np)
    THEN IF ah /\ ~RGt(R(SignalThreshold), RAbs(ad)) THEN "LONG"
         ELSE IF al /\ ~RGt(R(SignalThreshold), RAbs(ad)) THEN "SHORT"
         ELSE "NEUTRAL"
    ELSE "INSUFFICIENT_DATA"

\* the message of the third column
Signal(np, ah, al, ad) ==
    IF HasFullHorizon(np)
    THEN IF ah /\ RGt(RAbs(ad), R(SignalThreshold)) THEN "LONG"
         ELSE IF al /\ RGt(RAbs(ad), R(SignalThreshold)) THEN "SHORT"
         ELSE "NEUTRAL"
    ELSE "INSUFFICIENT_DATA"

(***************************************************************************)
(* Initial states: the two collections as the queries return them, nothing *)
(* rendered, no module-level name of the loop bound yet.                   *)
(***************************************************************************)
Started ==
    /\ pc = "query"
    /\ tickers = Unbound
    /\ pending = {}
    /\ ticker = Unbound
    /\ ticker_predicted = Unbound
    /\ ticker_actual = Unbound
    /\ current_price = Unbound
    /\ current_time = Unbound
    /\ next_predictions = Unbound
    /\ all_higher = Unbound
    /\ all_lower = Unbound
    /\ avg_diff = Unbound
    /\ next_predictions_avg = Unbound
    /\ price_diff = Unbound
    /\ rendered = [t \in AllTickers |-> NotRendered]
    /\ info = FALSE
    /\ error = "none"

\* two tickers, short series, one price per collection
Init ==
    /\ predicted_data \in Collections(AllTickers, {102}, MaxDocs)
    /\ actual_data \in Collections(AllTickers, {100}, MaxDocs)
    /\ Started

\* one ticker, a predicted series long enough for a full horizon and a
\* fifth point, every combination of prices
InitSignal ==
    /\ predicted_data \in Collections({"A"}, PredPrices, MaxPred)
    /\ actual_data \in Collections({"A"}, ActualPrices, MaxLast)
    /\ Started

\* one ticker, the same predicted lengths, a longer actual series whose
\* prices tell its elements apart
InitHorizon ==
    /\ predicted_data \in Collections({"A"}, {102}, MaxPred)
    /\ actual_data \in Collections({"A"}, {100, 101}, MaxActual)
    /\ Started

(***************************************************************************)
(* Lines 45-53: the two queries' results are tested for emptiness and the  *)
(* predicted documents grouped by ticker.                                  *)
(***************************************************************************)
Query ==
    /\ pc = "query"
    /\ IF predicted_data = <<>> \/ actual_data = <<>>
       THEN /\ info' = TRUE
            /\ pc' = "done"
            /\ UNCHANGED <<tickers, pending>>
       ELSE /\ tickers' = {predicted_data[i].ticker : i \in DOMAIN predicted_data}
            /\ pending' = tickers'
            /\ pc' = "loop"
            /\ info' = info
    /\ UNCHANGED <<predicted_data, actual_data, ticker, ticker_predicted,
                   ticker_actual, current_price, current_time,
                   next_predictions, all_higher, all_lower, avg_diff,
                   next_predictions_avg, price_diff, rendered, error>>

(***************************************************************************)
(* Lines 55-111 and 154-155: one iteration of the loop over the set of     *)
(* tickers, in any order.  A ZeroDivisionError leaves the loop: the        *)
(* handler renders the error and the remaining tickers are not visited.    *)
(***************************************************************************)
LoopBody ==
    /\ pc = "loop"
    /\ \E t \in pending :
        \* each local is bound once, in the order the body assigns it
        \E tp \in {FilterTicker(predicted_data, t)} :
        \E ta \in {FilterTicker(actual_data, t)} :
        \E guard \in {tp # <<>> /\ ta # <<>>} :
        \E cp \in {IF guard THEN ta[Len(ta)].price ELSE current_price} :
        \E ct \in {IF guard THEN ta[Len(ta)].time ELSE current_time} :
        \E np \in {IF guard THEN NextPredictions(tp, ct) ELSE next_predictions} :
        LET full == guard /\ HasFullHorizon(np)
            \* line 78, line 82, line 86
            raise78 == full /\ cp = 0
            raise82 == guard /\ ~raise78 /\ Len(np) = 0
            raise86 == guard /\ ~raise78 /\ ~raise82 /\ cp = 0
            raised == raise78 \/ raise82 \/ raise86
            tr == Trend(np, cp)
            ad == AvgDiff(np, cp)
            avg == NextPredictionsAvg(np)
            pd == PriceDiff(avg, cp)
        IN  /\ ticker' = t
            /\ ticker_predicted' = tp
            /\ ticker_actual' = ta
            /\ current_price' = cp
            /\ current_time' = ct
            /\ next_predictions' = np
            /\ all_higher' = IF full THEN tr.all_higher ELSE all_higher
            /\ all_lower' = IF full THEN tr.all_lower ELSE all_lower
            /\ avg_diff' = IF full /\ ~raise78 THEN ad ELSE avg_diff
            /\ next_predictions_avg' =
                  IF guard /\ ~raise78 /\ ~raise82 THEN avg
                  ELSE next_predictions_avg
            /\ price_diff' = IF guard /\ ~raised THEN pd ELSE price_diff
            /\ rendered' =
                  IF guard /\ ~raised
                  THEN [rendered EXCEPT ![t] =
                          [kind |-> "metrics",
                           current_price |-> cp,
                           next_predictions_avg |-> avg,
                           price_diff |-> pd,
                           delta_color |-> DeltaColor(pd),
                           signal |-> Signal(np, all_higher', all_lower',
                                             avg_diff')]]
                  ELSE rendered
            /\ error' = IF raised THEN "ZeroDivisionError" ELSE error
            /\ pending' = pending \ {t}
            /\ pc' = IF raised \/ pending \ {t} = {} THEN "done" ELSE "loop"
    /\ UNCHANGED <<predicted_data, actual_data, tickers, info>>

Next == Query \/ LoopBody

Spec == Init /\ [][Next]_vars

SpecSignal == InitSignal /\ [][Next]_vars

SpecHorizon == InitHorizon /\ [][Next]_vars

(***************************************************************************)
(* Properties.  After an iteration whose guard held (Guarded), the names   *)
(* current_price, current_time and next_predictions hold the values of the *)
(* ticker just visited; the properties are stated about that ticker.       *)
(***************************************************************************)
Visited == ticker # Unbound
Guarded == Visited /\ ticker_predicted # <<>> /\ ticker_actual # <<>>
Shown == rendered[ticker].kind = "metrics"

\* the positions of the visited ticker's documents in the two collections
ActualAt == {i \in DOMAIN actual_data : actual_data[i].ticker = ticker}
LaterAt ==
    {i \in DOMAIN predicted_data :
        /\ predicted_data[i].ticker = ticker
        /\ predicted_data[i].time > current_time}
\* the n-th position of LaterAt, in ascending order
NthLater(n) ==
    CHOOSE i \in LaterAt : Cardinality({j \in LaterAt : j <= i}) = n

RECURSIVE PriceTotal(_, _)
PriceTotal(h, i) == IF i = 0 THEN 0 ELSE h[i].price + PriceTotal(h, i - 1)

\* the classification of a 4-point horizon h against cp, in integers:
\* |mean of (p - cp) / cp * 100| > 1  iff  100 * |sum of (p - cp)| > 4 * |cp|
Classified(h, cp) ==
    LET higher == \A i \in 1..4 : h[i].price > cp
        lower == \A i \in 1..4 : h[i].price < cp
        moved == 100 * Abs(PriceTotal(h, 4) - 4 * cp) > 4 * Abs(cp)
    IN  IF higher /\ moved THEN "LONG"
        ELSE IF lower /\ moved THEN "SHORT"
        ELSE "NEUTRAL"

\* C1: for a ticker with a horizon of exactly 4 points (and a current price
\* the percentages are defined for), the signal is LONG iff every horizon
\* price is above current_price and |avg_pct_diff| > 1, else SHORT iff every
\* horizon price is below current_price and |avg_pct_diff| > 1, else NEUTRAL.
C1_SignalRule ==
    (Guarded /\ Len(next_predictions) = 4 /\ current_price # 0) =>
        /\ Shown
        /\ rendered[ticker].signal = Classified(next_predictions, current_price)

\* four points exactly 1% above the current price: NEUTRAL
C1_Witness ==
    /\ Guarded
    /\ Len(next_predictions) = 4
    /\ current_price = 100
    /\ \A i \in 1..4 : next_predictions[i].price = 101
    /\ Shown
    /\ rendered[ticker].signal = "NEUTRAL"

C3_InsufficientDataIsInformational ==
    (Guarded /\ Len(next_predictions) = 0) =>
        /\ error = "none"
        /\ rendered[ticker].kind = "insufficient_data"
        /\ (pending # {} => pc = "loop")

\* C4: a horizon of fewer than 4 points gives INSUFFICIENT_DATA whatever the
\* prices are; LONG, SHORT and NEUTRAL come from a horizon of 4 only.
C4_ShortHorizon ==
    Guarded =>
        /\ (Len(next_predictions) < 4 /\ Shown) =>
              rendered[ticker].signal = "INSUFFICIENT_DATA"
        /\ (Len(next_predictions) \in 1..3 /\ current_price # 0) => Shown
        /\ (Shown /\ rendered[ticker].signal \in {"LONG", "SHORT", "NEUTRAL"}) =>
              /\ Len(next_predictions) = 4
              /\ Cardinality(LaterAt) >= 4

\* three points, each more than 1% above the current price
C4_Witness ==
    /\ Guarded
    /\ Len(next_predictions) = 3
    /\ current_price = 98
    /\ \A i \in 1..3 : next_predictions[i].price >= 99
    /\ Shown
    /\ rendered[ticker].signal = "INSUFFICIENT_DATA"

\* C5: for a horizon of n points, 1 <= n <= 4, forecast_avg is the mean of
\* the n horizon prices and percent_diff is
\* (forecast_avg - current_price) / current_price * 100, also when n < 4.
C5_Metrics ==
    (Guarded /\ Len(next_predictions) \in 1..4 /\ current_price # 0) =>
        LET n == Len(next_predictions)
            total == PriceTotal(next_predictions, n)
            avg == rendered[ticker].next_predictions_avg
            pd == rendered[ticker].price_diff
        IN  /\ Shown
            /\ rendered[ticker].current_price = current_price
            /\ avg[1] * n = total * avg[2]
            /\ pd[1] * (n * current_price)
                  = 100 * (total - n * current_price) * pd[2]

\* three points: the mean and the percentage are rendered with the
\* INSUFFICIENT_DATA signal
C5_Witness ==
    /\ Guarded
    /\ Len(next_predictions) = 3
    /\ current_price = 100
    /\ \E i \in 1..3 : next_predictions[i].price = 99
    /\ \E i \in 1..3 : next_predictions[i].price = 101
    /\ Shown
    /\ rendered[ticker].signal = "INSUFFICIENT_DATA"
    /\ rendered[ticker].next_predictions_avg[2] = 3

\* C6: what is rendered for a ticker does not depend on the iteration order
\* or on the other tickers: at the end of a run every ticker whose own series
\* evaluate (both present, a later predicted point, a non-zero current
\* price) has been evaluated.
C6_Independent ==
    (pc = "done" /\ ~info) =>
        \A t \in tickers :
            LET tp == FilterTicker(predicted_data, t)
                ta == FilterTicker(actual_data, t)
            IN  (/\ ta # <<>>
                 /\ ta[Len(ta)].price # 0
                 /\ \E i \in DOMAIN tp : tp[i].time > ta[Len(ta)].time)
                => rendered[t].kind = "metrics"

\* C7: a current price <= 0 makes the evaluation fail: no metrics and no
\* signal are produced for the ticker.
C7_InvalidPrice ==
    (Guarded /\ current_price <= 0) =>
        /\ rendered[ticker] = NotRendered
        /\ error # "none"

\* C8: a ticker with documents in only one of the two collections gets a
\* visible InsufficientDataError outcome instead of being dropped.
C8_MissingSeriesSignalled ==
    pc = "done" =>
        \A t \in AllTickers :
            LET inPredicted == \E i \in DOMAIN predicted_data :
                                  predicted_data[i].ticker = t
                inActual == \E i \in DOMAIN actual_data :
                               actual_data[i].ticker = t
            IN  (inPredicted # inActual) =>
                    (info \/ rendered[t].kind = "insufficient_data")

C10_OneSignal ==
    Guarded =>
        /\ (Len(next_predictions) >= 1 /\ current_price # 0) =>
              /\ Shown
              /\ rendered[ticker].signal
                    \in {"LONG", "SHORT", "NEUTRAL", "INSUFFICIENT_DATA"}
        /\ (Len(next_predictions) = 4 /\ current_price # 0) =>
              /\ ~(all_higher /\ all_lower)
              /\ rendered[ticker].signal =
                    (IF all_lower /\ RGt(RAbs(avg_diff), R(1)) THEN "SHORT"
                     ELSE IF all_higher /\ RGt(RAbs(avg_diff), R(1)) THEN "LONG"
                     ELSE "NEUTRAL")

\* four points equal to the current price: neither higher nor lower
C10_Witness ==
    /\ Guarded
    /\ Len(next_predictions) = 4
    /\ current_price = 101
    /\ \A i \in 1..4 : next_predictions[i].price = 101
    /\ ~all_higher
    /\ ~all_lower
    /\ Shown
    /\ rendered[ticker].signal = "NEUTRAL"

====
